---- MODULE Spec2Model ----
(***************************************************************************)
(* Market Basket Recommendation System: the name normalisation helper      *)
(* _clean_name and SimpleRecommendationEngine.get_recommendations of       *)
(* app.py.                                                                 *)
(*                                                                         *)
(* Strings are sequences of tokens.  A token is one character, except that *)
(* the five characters "(SKU:" (and its case variants) are one token: the  *)
(* marker " (SKU:" is then the two tokens " ", "(SKU:", and since the      *)
(* marker holds one space only, at its start, it cannot overlap itself.    *)
(* Reals are exact decimals held as integers: rule confidence, lift and    *)
(* support in units of 10^-5; a record's confidence, lift and score in     *)
(* units of 10^-3 and its support in units of 10^-4 (the places round()    *)
(* keeps).                                                                 *)
(***************************************************************************)
EXTENDS Integers, Sequences, FiniteSets, TLC

VARIABLES
    rules,          \* self.rules: the rule table, in row order
    item_counts,    \* self.item_counts: dict, as <<key, count>> in key order
    pair_counts,    \* self.pair_counts: dict, as <<a, b, count>> in key order
    pc,             \* "idle" | "returned" | "repeated" (engine calls);
                    \* "raw" | "clean" | "clean2" (_clean_name calls)
    cart_items,     \* argument of the call
    top_n,          \* argument of the call
    min_confidence, \* argument of the call
    min_lift,       \* argument of the call
    order,          \* the order in which this call's sets yield their elements
    agg,            \* local agg when the call returned, in insertion order
    scores,         \* local scores when the call returned, in insertion order
    result,         \* the list the call returned
    again,          \* the list a second call with the same arguments returned
    raw,            \* argument of _clean_name
    key,            \* _clean_name(raw)
    key2            \* _clean_name(key)

vars == <<rules, item_counts, pair_counts, pc, cart_items, top_n, min_confidence,
          min_lift, order, agg, scores, result, again, raw, key, key2>>

engineVars == <<rules, item_counts, pair_counts, cart_items, top_n, min_confidence,
                min_lift, order, agg, scores, result, again>>

(***************************************************************************)
(* Bounds.                                                                 *)
(***************************************************************************)
MaxStrLen == 4
MaxRules == 2
MaxTopN == 3

(***************************************************************************)
(* Strings.                                                                *)
(***************************************************************************)
Whitespace == {" ", "TAB"}

Alphabet == {"a", "A", " ", "TAB", "(SKU:", "(Sku:", "(sku:"}

Marker == <<" ", "(SKU:">>

\* str.lower, per token
LowerTok(c) ==
    CASE c = "A" -> "a"
      [] c = "X" -> "x"
      [] c = "Y" -> "y"
      [] c = "(SKU:" -> "(sku:"
      [] c = "(Sku:" -> "(sku:"
      [] OTHER -> c

lower(x) == [i \in 1..Len(x) |-> LowerTok(x[i])]

RECURSIVE lstrip(_)
lstrip(x) ==
    IF x # <<>> /\ Head(x) \in Whitespace THEN lstrip(Tail(x)) ELSE x

RECURSIVE rstrip(_)
rstrip(x) ==
    IF x # <<>> /\ x[Len(x)] \in Whitespace
    THEN rstrip(SubSeq(x, 1, Len(x) - 1))
    ELSE x

\* x.strip()
strip(x) == rstrip(lstrip(x))

\* the places where " (SKU:" starts in x
MarkerAt(x) ==
    {i \in 1..(Len(x) - 1) : x[i] = Marker[1] /\ x[i + 1] = Marker[2]}

\* " (SKU:" in x
HasMarker(x) == MarkerAt(x) # {}

\* x.split(" (SKU:")[0]
BeforeMarker(x) ==
    LET i == CHOOSE j \in MarkerAt(x) : \A k \in MarkerAt(x) : j <= k
    IN SubSeq(x, 1, i - 1)

\* the length of the first word of x (x starts with no whitespace)
RECURSIVE WordLen(_)
WordLen(x) ==
    IF x = <<>> \/ Head(x) \in Whitespace THEN 0 ELSE 1 + WordLen(Tail(x))

\* " ".join(x.split()): the words of x, one space between two
RECURSIVE JoinSplit(_)
JoinSplit(x) ==
    LET y == lstrip(x)
        n == WordLen(y)
        rest == JoinSplit(SubSeq(y, n + 1, Len(y)))
    IN IF y = <<>> THEN <<>>
       ELSE IF rest = <<>> THEN SubSeq(y, 1, n)
       ELSE SubSeq(y, 1, n) \o <<" ">> \o rest

\* a faulty _clean_name: the key keeps its case
CleanNoLower(x) ==
    LET s == strip(x)
        t == IF HasMarker(s) THEN BeforeMarker(s) ELSE s
    IN JoinSplit(t)

\* the body of _clean_name, for a str argument
normalise(x) ==
    LET s == strip(x)
        t == IF HasMarker(s) THEN BeforeMarker(s) ELSE s
    IN lower(JoinSplit(t))

\* the item names the rule tables, count tables and carts are made of
nA == <<"a">>
nAsku == <<"A", " ", "(SKU:", "1">>
nX == <<"x">>
nXu == <<"X">>
nY == <<"y">>
nBlank == <<" ">>
nEmpty == <<>>

ItemNames == {nA, nAsku, nX, nXu, nY, nBlank, nEmpty}

\* normalise over the item names, computed once
NormalisedItemName == [n \in ItemNames |-> normalise(n)]

\* _clean_name(x): the same value as normalise(x), looked up when x is an item name
_clean_name(x) ==
    IF x \in ItemNames THEN NormalisedItemName[x] ELSE normalise(x)

(***************************************************************************)
(* Input data: item names, rules, count tables, carts, thresholds.         *)
(***************************************************************************)
\* every normalised name a set of the engine can hold: those of the rules'
\* items and of the non-blank cart entries
Keys == {_clean_name(n) : n \in {nA, nAsku, nX, nXu, nY}}

Rule(a, c, cf, l, s) ==
    [antecedents |-> a, consequents |-> c, confidence |-> cf, lift |-> l,
     support |-> s]

RulePool ==
    { Rule(<<nA>>, <<nX>>, 80000, 200000, 10000),
      Rule(<<nAsku>>, <<nXu, nY>>, 60000, 150000, 5027),
      Rule(<<nA, nX>>, <<nY>>, 90004, 120000, 20000),
      Rule(<<nA>>, <<nY, nA>>, 20000, 300000, 30000),
      Rule(<<nA>>, <<nX, nXu>>, 70000, 90000, 1000) }

\* the rule tables: up to MaxRules different rules of the pool, in any order
RuleTables ==
    UNION { { t \in [1..n -> RulePool] : \A i, j \in 1..n : i # j => t[i] # t[j] }
            : n \in 0..MaxRules }

\* <<item_counts, pair_counts>>
CountTables ==
    { << <<>>, <<>> >>,
      << << <<nA, 10>>, <<nX, 5>>, <<nY, 4>> >>,
         << <<nA, nX, 4>>, <<nA, nY, 2>>, <<nX, nY, 3>> >> >>,
      << << <<nAsku, 6>>, <<nA, 10>>, <<nXu, 0>>, <<nX, 5>> >>,
         << <<nA, nX, 4>>, <<nX, nA, 2>>, <<nA, nXu, 1>>, <<nEmpty, nA, 3>> >> >> }

Carts ==
    { <<>>, <<nA>>, <<nAsku, nBlank>>, <<nXu, nA>> }

\* <<min_confidence, min_lift>>: the defaults, and no threshold
Thresholds == { <<30000, 100000>>, <<0, 0>> }

\* the orders in which a set can yield its elements
Orders ==
    { o \in [1..Cardinality(Keys) -> Keys] :
        \A i, j \in 1..Cardinality(Keys) : i # j => o[i] # o[j] }

\* the elements of set S in the order a loop over S meets them
Iter(S, ord) == SelectSeq(ord, LAMBDA k : k \in S)

(***************************************************************************)
(* Arithmetic.                                                             *)
(***************************************************************************)
Max(a, b) == IF a >= b THEN a ELSE b

Min(a, b) == IF a <= b THEN a ELSE b

\* round(n / d) to the nearest integer, halves to the even one (n >= 0, d > 0)
Round(n, d) ==
    LET q == n \div d
        r == n % d
    IN IF 2 * r < d THEN q
       ELSE IF 2 * r > d THEN q + 1
       ELSE IF q % 2 = 0 THEN q ELSE q + 1

\* lift of a co-occurrence record: None
NoLift == -1

(***************************************************************************)
(* get_recommendations: the rule-based path.                               *)
(***************************************************************************)
\* {_clean_name(c) for c in cart_items if isinstance(c, str) and c.strip()}
cart_set_lower(cart) ==
    {_clean_name(cart[i]) : i \in {j \in DOMAIN cart : strip(cart[j]) # <<>>}}

ants_lower(rule) ==
    {_clean_name(rule.antecedents[i]) : i \in DOMAIN rule.antecedents}

cons_lower(rule) ==
    {_clean_name(rule.consequents[i]) : i \in DOMAIN rule.consequents}

\* a faulty new_items_lower: owned items stay among the new ones
NewItemsKeepOwned(rule, cart_set) == cons_lower(rule)

new_items_lower(rule, cart_set) == cons_lower(rule) \ cart_set

\* a faulty RuleQualifies: the lift threshold is not applied
QualifiesNoLift(rule, cart_set, minc, minl) ==
    /\ ants_lower(rule) \subseteq cart_set
    /\ new_items_lower(rule, cart_set) # {}
    /\ rule.confidence >= minc

\* the conditions under which the loop body aggregates the rule
RuleQualifies(rule, cart_set, minc, minl) ==
    /\ ants_lower(rule) \subseteq cart_set
    /\ new_items_lower(rule, cart_set) # {}
    /\ rule.confidence >= minc
    /\ rule.lift >= minl

\* next((orig for orig in rule["consequents"] if _clean_name(orig) == item_lower),
\*      item_lower)
item_original(rule, item_lower) ==
    LET hits == {i \in DOMAIN rule.consequents :
                    _clean_name(rule.consequents[i]) = item_lower}
    IN IF hits = {} THEN item_lower
       ELSE rule.consequents[CHOOSE i \in hits : \A j \in hits : i <= j]

\* the place of key `item` in the insertion-ordered dict d, 0 when absent
IndexOf(d, item) ==
    IF \E i \in DOMAIN d : d[i].product = item
    THEN CHOOSE i \in DOMAIN d : d[i].product = item
    ELSE 0

\* a faulty AggAdd: support keeps the largest value instead of the sum
AggAddMaxSupport(aggv, item, rule) ==
    LET i == IndexOf(aggv, item)
        old == IF i = 0
               THEN [product |-> item, confidence |-> 0, lift |-> 0,
                     support |-> 0, count |-> 0]
               ELSE aggv[i]
        new == [product |-> item,
                confidence |-> Max(old.confidence, rule.confidence),
                lift |-> Max(old.lift, rule.lift),
                support |-> Max(old.support, rule.support),
                count |-> old.count + 1]
    IN IF i = 0 THEN Append(aggv, new) ELSE [aggv EXCEPT ![i] = new]

\* the four updates of agg[item_original]; a missing key starts at the
\* defaultdict's zeros and is inserted last
AggAdd(aggv, item, rule) ==
    LET i == IndexOf(aggv, item)
        old == IF i = 0
               THEN [product |-> item, confidence |-> 0, lift |-> 0,
                     support |-> 0, count |-> 0]
               ELSE aggv[i]
        new == [product |-> item,
                confidence |-> Max(old.confidence, rule.confidence),
                lift |-> Max(old.lift, rule.lift),
                support |-> old.support + rule.support,
                count |-> old.count + 1]
    IN IF i = 0 THEN Append(aggv, new) ELSE [aggv EXCEPT ![i] = new]

\* for item_lower in new_items_lower: ...
RECURSIVE AggItems(_, _, _)
AggItems(aggv, items, rule) ==
    IF items = <<>> THEN aggv
    ELSE AggItems(AggAdd(aggv, item_original(rule, Head(items)), rule),
                  Tail(items), rule)

\* one pass of the loop over the rule table
RuleStep(aggv, rule, cart_set, minc, minl, ord) ==
    IF RuleQualifies(rule, cart_set, minc, minl)
    THEN AggItems(aggv, Iter(new_items_lower(rule, cart_set), ord), rule)
    ELSE aggv

\* agg after the first k rules of the table
RECURSIVE RuleAgg(_, _, _, _, _, _)
RuleAgg(rs, k, cart_set, minc, minl, ord) ==
    IF k = 0 THEN <<>>
    ELSE RuleStep(RuleAgg(rs, k - 1, cart_set, minc, minl, ord), rs[k],
                  cart_set, minc, minl, ord)

\* score before rounding, in units of 10^-6
RuleScore(s) == 5 * s.confidence + 3 * s.lift + 2 * s.support

RuleRec(s) ==
    [product |-> s.product,
     confidence |-> Round(s.confidence, 100),
     lift |-> Round(s.lift, 100),
     support |-> Round(s.support, 10),
     score |-> Round(RuleScore(s), 1000),
     frequency |-> s.count,
     source |-> "rules"]

\* r put into the descending list after every record that scores as much
InsertDesc(sorted, r) ==
    LET before == {i \in DOMAIN sorted : sorted[i].score >= r.score}
        n == Cardinality(before)
    IN SubSeq(sorted, 1, n) \o <<r>> \o SubSeq(sorted, n + 1, Len(sorted))

RECURSIVE SortFrom(_, _)
SortFrom(sorted, rest) ==
    IF rest = <<>> THEN sorted
    ELSE SortFrom(InsertDesc(sorted, Head(rest)), Tail(rest))

\* a faulty SortDesc: the records stay in aggregation order
NoSort(recs) == recs

\* recs.sort(key=lambda x: x["score"], reverse=True): stable, descending
SortDesc(recs) == SortFrom(<<>>, recs)

\* a faulty Truncate: every record is returned
NoTruncate(recs, n) == recs

\* recs[:top_n], top_n >= 0
Truncate(recs, n) == SubSeq(recs, 1, Min(n, Len(recs)))

(***************************************************************************)
(* get_recommendations: the co-occurrence fallback.                        *)
(***************************************************************************)
\* c in name_map
Known(ic, k) == \E i \in DOMAIN ic : _clean_name(ic[i][1]) = k

\* name_map[k]: the last key of item_counts that normalises to k
name_map(ic, k) ==
    LET hits == {i \in DOMAIN ic : _clean_name(ic[i][1]) = k}
    IN ic[CHOOSE i \in hits : \A j \in hits : j <= i][1]

\* self.item_counts.get(item, 0)
item_count(ic, item) ==
    IF \E i \in DOMAIN ic : ic[i][1] = item
    THEN ic[CHOOSE i \in DOMAIN ic : ic[i][1] = item][2]
    ELSE 0

\* [c for c in cart_set_lower if c in name_map]
cart_known(ic, cart_set, ord) ==
    SelectSeq(Iter(cart_set, ord), LAMBDA c : Known(ic, c))

\* scores[other]["pair"] += pcount; scores[other]["den"] += c_count
ScoreAdd(sc, other, pcount, c_count) ==
    LET i == IndexOf(sc, other)
    IN IF i = 0
       THEN Append(sc, [product |-> other, pair |-> pcount, den |-> c_count])
       ELSE [sc EXCEPT ![i] = [product |-> other, pair |-> @.pair + pcount,
                               den |-> @.den + c_count]]

\* one entry of the loop over self.pair_counts.items()
PairStep(sc, entry, c_orig, c_count, cart_set) ==
    LET a == entry[1]
        b == entry[2]
        other == IF a = c_orig THEN b ELSE a
    IN IF (a = c_orig \/ b = c_orig) /\ _clean_name(other) \notin cart_set
       THEN ScoreAdd(sc, other, entry[3], c_count)
       ELSE sc

RECURSIVE ScanPairs(_, _, _, _, _, _)
ScanPairs(sc, pcs, k, c_orig, c_count, cart_set) ==
    IF k = 0 THEN sc
    ELSE PairStep(ScanPairs(sc, pcs, k - 1, c_orig, c_count, cart_set),
                  pcs[k], c_orig, c_count, cart_set)

\* for c in cart_known: ...
RECURSIVE ScanCart(_, _, _, _, _)
ScanCart(sc, known, ic, pcs, cart_set) ==
    IF known = <<>> THEN sc
    ELSE LET c_orig == name_map(ic, Head(known))
             c_count == item_count(ic, c_orig)
         IN ScanCart(IF c_count = 0 THEN sc
                     ELSE ScanPairs(sc, pcs, Len(pcs), c_orig, c_count, cart_set),
                     Tail(known), ic, pcs, cart_set)

RECURSIVE SumCounts(_, _)
SumCounts(ic, k) == IF k = 0 THEN 0 ELSE ic[k][2] + SumCounts(ic, k - 1)

\* max(1, sum(self.item_counts.values()))
total_items(ic) == Max(1, SumCounts(ic, Len(ic)))

CoocRec(s, ic) ==
    LET cnt == item_count(ic, s.product)
        tot == total_items(ic)
    IN [product |-> s.product,
        confidence |-> IF s.den # 0 THEN Round(1000 * s.pair, s.den) ELSE 0,
        lift |-> NoLift,
        support |-> Round(10000 * cnt, tot),
        score |-> IF s.den # 0
                  THEN Round(100 * (7 * s.pair * tot + 3 * cnt * s.den), s.den * tot)
                  ELSE Round(300 * cnt, tot),
        frequency |-> cnt,
        source |-> "cooccurrence"]

(***************************************************************************)
(* get_recommendations.  The value is the returned list with the locals    *)
(* agg and scores as they are when the call returns.                       *)
(***************************************************************************)
Returned(aggv, sc, recs) == [agg |-> aggv, scores |-> sc, result |-> recs]

\* lines 84-130: the fallback, entered with agg as the rule path left it
CoocPath(aggv, ic, pcs, cart_set, n, ord) ==
    LET known == cart_known(ic, cart_set, ord)
        sc == ScanCart(<<>>, known, ic, pcs, cart_set)
        recs == [i \in DOMAIN sc |-> CoocRec(sc[i], ic)]
    IN IF ic = <<>> \/ pcs = <<>> THEN Returned(aggv, <<>>, <<>>)
       ELSE IF known = <<>> THEN Returned(aggv, <<>>, <<>>)
       ELSE IF sc = <<>> THEN Returned(aggv, sc, <<>>)
       ELSE Returned(aggv, sc, Truncate(SortDesc(recs), n))

\* a faulty get_recommendations: the rule path does not return when the
\* fallback has records
FallThrough(rs, ic, pcs, cart, n, minc, minl, ord) ==
    LET cart_set == cart_set_lower(cart)
        aggv == RuleAgg(rs, Len(rs), cart_set, minc, minl, ord)
        rule_recs == [i \in DOMAIN aggv |-> RuleRec(aggv[i])]
        cooc == CoocPath(aggv, ic, pcs, cart_set, n, ord)
    IN IF cart = <<>> THEN Returned(<<>>, <<>>, <<>>)
       ELSE IF aggv # <<>> /\ cooc.result = <<>>
       THEN Returned(aggv, <<>>, Truncate(SortDesc(rule_recs), n))
       ELSE cooc

\* a rule table that is None or empty is the empty sequence
get_recommendations(rs, ic, pcs, cart, n, minc, minl, ord) ==
    LET cart_set == cart_set_lower(cart)
        aggv == RuleAgg(rs, Len(rs), cart_set, minc, minl, ord)
        rule_recs == [i \in DOMAIN aggv |-> RuleRec(aggv[i])]
    IN IF cart = <<>> THEN Returned(<<>>, <<>>, <<>>)
       ELSE IF aggv # <<>>
       THEN Returned(aggv, <<>>, Truncate(SortDesc(rule_recs), n))
       ELSE CoocPath(aggv, ic, pcs, cart_set, n, ord)

(***************************************************************************)
(* The engine: built once over the loaded tables, then queried.            *)
(***************************************************************************)
NoCall == <<>>

Init ==
    /\ rules \in RuleTables
    /\ \E ct \in CountTables : item_counts = ct[1] /\ pair_counts = ct[2]
    /\ pc = "idle"
    /\ cart_items = NoCall /\ top_n = 0 /\ min_confidence = 0 /\ min_lift = 0
    /\ order = NoCall /\ agg = <<>> /\ scores = <<>>
    /\ result = <<>> /\ again = <<>>
    /\ raw = <<>> /\ key = <<>> /\ key2 = <<>>

\* engine.get_recommendations(cart, top_n, min_confidence, min_lift)
GetRecommendations ==
    /\ pc = "idle"
    /\ \E cart \in Carts, n \in 1..MaxTopN, th \in Thresholds, ord \in Orders :
          LET out == get_recommendations(rules, item_counts, pair_counts, cart, n,
                                         th[1], th[2], ord)
          IN /\ cart_items' = cart
             /\ top_n' = n
             /\ min_confidence' = th[1]
             /\ min_lift' = th[2]
             /\ order' = ord
             /\ agg' = out.agg
             /\ scores' = out.scores
             /\ result' = out.result
    /\ pc' = "returned"
    /\ UNCHANGED <<rules, item_counts, pair_counts, again, raw, key, key2>>

\* the same call once more; its sets may yield their elements in another order
Requery ==
    /\ pc = "returned"
    /\ \E ord \in Orders :
          again' = get_recommendations(rules, item_counts, pair_counts, cart_items,
                                       top_n, min_confidence, min_lift, ord).result
    /\ pc' = "repeated"
    /\ UNCHANGED <<rules, item_counts, pair_counts, cart_items, top_n,
                   min_confidence, min_lift, order, agg, scores, result,
                   raw, key, key2>>

Next == GetRecommendations \/ Requery

Spec == Init /\ [][Next]_vars

(***************************************************************************)
(* _clean_name on its own: a name is normalised, and its key once more.    *)
(***************************************************************************)
Strings == UNION { [1..n -> Alphabet] : n \in 0..MaxStrLen }

InitClean ==
    /\ raw \in Strings
    /\ pc = "raw"
    /\ key = <<>> /\ key2 = <<>>
    /\ rules = <<>> /\ item_counts = <<>> /\ pair_counts = <<>>
    /\ cart_items = NoCall /\ top_n = 0 /\ min_confidence = 0 /\ min_lift = 0
    /\ order = NoCall /\ agg = <<>> /\ scores = <<>>
    /\ result = <<>> /\ again = <<>>

Normalize ==
    /\ pc = "raw"
    /\ key' = _clean_name(raw)
    /\ pc' = "clean"
    /\ UNCHANGED <<raw, key2>>
    /\ UNCHANGED engineVars

Renormalize ==
    /\ pc = "clean"
    /\ key2' = _clean_name(key)
    /\ pc' = "clean2"
    /\ UNCHANGED <<raw, key>>
    /\ UNCHANGED engineVars

NextClean == Normalize \/ Renormalize

SpecClean == InitClean /\ [][NextClean]_vars

(***************************************************************************)
(* Properties.                                                             *)
(***************************************************************************)
Called == pc \in {"returned", "repeated"}

\* the normalised cart of the call, as line 47 builds it
CartSet == cart_set_lower(cart_items)

\* rule k of the table fires for the call, from the rule's own fields
Fires(k) ==
    /\ \A i \in DOMAIN rules[k].antecedents :
          _clean_name(rules[k].antecedents[i]) \in CartSet
    /\ \E i \in DOMAIN rules[k].consequents :
          _clean_name(rules[k].consequents[i]) \notin CartSet
    /\ rules[k].confidence >= min_confidence
    /\ rules[k].lift >= min_lift

\* the records of the call before the sort and the cut
Candidates ==
    IF agg # <<>>
    THEN [i \in DOMAIN agg |-> RuleRec(agg[i])]
    ELSE [i \in DOMAIN scores |-> CoocRec(scores[i], item_counts)]

\* C1 as stated: no returned product has the normalised name of a cart entry,
\* whatever the entry.
NoSelfRecommendation ==
    Called =>
        \A i \in DOMAIN result : \A j \in DOMAIN cart_items :
            _clean_name(result[i].product) # _clean_name(cart_items[j])

\* C1 as amended: no returned product, from the rule path or the fallback, has
\* a normalised name that is in the normalised cart, i.e. that of a cart entry
\* that is not blank.
NoOwnedItemRecommended ==
    Called =>
        \A i \in DOMAIN result :
            /\ _clean_name(result[i].product) \notin CartSet
            /\ \A j \in DOMAIN cart_items :
                  strip(cart_items[j]) # <<>>
                  => _clean_name(result[i].product) # _clean_name(cart_items[j])

\* a rule that fires names an owned item among its consequents, the cart spells
\* the owned item with its SKU, and records are returned
OwnedConsequentWitness ==
    /\ pc = "returned"
    /\ result # <<>>
    /\ \E j \in DOMAIN cart_items : HasMarker(cart_items[j])
    /\ \E k \in DOMAIN rules :
          /\ Fires(k)
          /\ \E i \in DOMAIN rules[k].consequents :
                _clean_name(rules[k].consequents[i]) \in CartSet

\* C2: when the rule aggregation is not empty every returned record is a
\* "rules" record and the list is the one the engine returns over any other
\* count tables; a "cooccurrence" record is returned only when the aggregation
\* is empty.
RulePriority ==
    pc = "returned" =>
        /\ (agg # <<>> \/ \E k \in DOMAIN rules : Fires(k)) =>
              /\ \A i \in DOMAIN result : result[i].source = "rules"
              /\ \A ct \in CountTables :
                    get_recommendations(rules, ct[1], ct[2], cart_items, top_n,
                                        min_confidence, min_lift, order).result
                    = result
        /\ (\E i \in DOMAIN result : result[i].source = "cooccurrence") =>
              agg = <<>>

\* rules answered with fewer than top_n records although the count tables
\* alone would have produced records
ShortRuleAnswerWitness ==
    /\ pc = "returned"
    /\ agg # <<>>
    /\ Len(result) < top_n
    /\ get_recommendations(<<>>, item_counts, pair_counts, cart_items, top_n,
                           min_confidence, min_lift, order).result # <<>>

\* C3: a second call with the same tables and arguments returns the same
\* ordered list, whatever order its sets yield their elements in.
Determinism == pc = "repeated" => again = result

\* C4: the returned list has at most top_n records.
TopNBound == Called => Len(result) <= top_n

\* more candidates than top_n, on either path, and top_n records returned
TruncationWitness ==
    /\ pc = "returned"
    /\ Len(Candidates) > top_n
    /\ Len(result) = top_n

\* C5: scores do not increase along the returned list, every returned record is
\* a candidate, and no candidate left out scores more than one returned.
Ranking ==
    Called =>
        /\ \A i \in DOMAIN result : \A j \in DOMAIN result :
              i < j => result[i].score >= result[j].score
        /\ \A i \in DOMAIN result : \E c \in DOMAIN Candidates :
              Candidates[c] = result[i]
        /\ \A c \in DOMAIN Candidates :
              (\A i \in DOMAIN result : result[i] # Candidates[c])
              => \A i \in DOMAIN result : Candidates[c].score <= result[i].score

\* a candidate met later outscores an earlier one, and one candidate is cut
RankingWitness ==
    /\ pc = "returned"
    /\ Len(Candidates) > Len(result)
    /\ result # <<>>
    /\ \E c, d \in DOMAIN Candidates :
          c < d /\ Candidates[c].score < Candidates[d].score

\* C6: pass k of the loop changes the aggregation exactly when rule k fires,
\* and the call's agg is the aggregation after the last pass.
RuleFiringCondition ==
    (pc = "returned" /\ cart_items # <<>>) =>
        /\ agg = RuleAgg(rules, Len(rules), CartSet, min_confidence, min_lift, order)
        /\ \A k \in DOMAIN rules :
              (RuleAgg(rules, k, CartSet, min_confidence, min_lift, order)
               # RuleAgg(rules, k - 1, CartSet, min_confidence, min_lift, order))
              <=> Fires(k)

\* of two rules whose antecedents the cart holds and that name a new item, one
\* fires and one is below a threshold
ThresholdWitness ==
    /\ pc = "returned"
    /\ agg # <<>>
    /\ \E k, m \in DOMAIN rules :
          /\ Fires(k)
          /\ ~Fires(m)
          /\ ants_lower(rules[m]) \subseteq CartSet
          /\ cons_lower(rules[m]) \ CartSet # {}

\* C7: normalising a normalised name leaves it as it is.
CleanIdempotent == pc = "clean2" => key2 = key

\* a name with a tab before "(SKU:", which the first pass turns into a space
TabBeforeSkuWitness ==
    /\ pc = "clean2"
    /\ \E i \in 1..(Len(raw) - 1) :
          /\ raw[i] = "TAB"
          /\ raw[i + 1] \in {"(SKU:", "(Sku:"}
          /\ i > 1 /\ raw[i - 1] \notin Whitespace
    /\ key # raw

\* the rules that contributed product p: those that fire and whose first
\* consequent of some new normalised name is p
Contributors(p) ==
    {k \in DOMAIN rules :
        /\ Fires(k)
        /\ \E i \in DOMAIN rules[k].consequents :
              /\ rules[k].consequents[i] = p
              /\ _clean_name(p) \notin CartSet
              /\ \A j \in 1..(i - 1) :
                    _clean_name(rules[k].consequents[j]) # _clean_name(p)}

RECURSIVE SumSupport(_)
SumSupport(S) ==
    IF S = {} THEN 0
    ELSE LET k == CHOOSE x \in S : TRUE
         IN rules[k].support + SumSupport(S \ {k})

\* C8: each aggregate holds the largest confidence and lift, the summed support
\* and the number of the rules that contributed its product, and the record
\* returned for it carries the score 0.5 confidence + 0.3 lift + 0.2 support of
\* these, and that number as frequency.
RuleAggregation ==
    pc = "returned" =>
        /\ \A i \in DOMAIN agg :
              LET C == Contributors(agg[i].product)
              IN /\ C # {}
                 /\ \E k \in C : agg[i].confidence = rules[k].confidence
                 /\ \A k \in C : agg[i].confidence >= rules[k].confidence
                 /\ \E k \in C : agg[i].lift = rules[k].lift
                 /\ \A k \in C : agg[i].lift >= rules[k].lift
                 /\ agg[i].support = SumSupport(C)
                 /\ agg[i].count = Cardinality(C)
        /\ \A j \in DOMAIN result :
              result[j].source = "rules" =>
                  \E i \in DOMAIN agg :
                      /\ agg[i].product = result[j].product
                      /\ result[j].frequency = Cardinality(Contributors(agg[i].product))
                      /\ result[j].score
                         = Round(5 * agg[i].confidence + 3 * agg[i].lift
                                 + 2 * agg[i].support, 1000)

\* a returned product that two rules contributed, one of them with two
\* consequents of one normalised name
TwoContributorsWitness ==
    /\ pc = "returned"
    /\ \E j \in DOMAIN result :
          LET C == Contributors(result[j].product)
          IN /\ Cardinality(C) = 2
             /\ \E k, m \in C : rules[k].confidence < rules[m].confidence
             /\ \E k \in C : \E a, b \in DOMAIN rules[k].consequents :
                   /\ a # b
                   /\ _clean_name(rules[k].consequents[a])
                      = _clean_name(rules[k].consequents[b])

\* pair-count entry e links the item-count key c to `other`
Links(e, c, other) ==
    \/ e[1] = c /\ e[2] = other
    \/ e[2] = c /\ e[1] = other

\* the known cart items of non-zero count with an entry that links them to `other`
LinkedCartItems(other) ==
    {c \in {name_map(item_counts, k) : k \in {x \in CartSet : Known(item_counts, x)}} :
        /\ item_count(item_counts, c) # 0
        /\ \E i \in DOMAIN pair_counts : Links(pair_counts[i], c, other)}

RECURSIVE SumItemCounts(_)
SumItemCounts(S) ==
    IF S = {} THEN 0
    ELSE LET c == CHOOSE x \in S : TRUE
         IN item_count(item_counts, c) + SumItemCounts(S \ {c})

\* C9: den_sum of a candidate is the sum of the counts of the cart items linked
\* to it, each counted once however many entries link it.
DenOncePerCartItem ==
    pc = "returned" =>
        \A i \in DOMAIN scores :
            scores[i].den = SumItemCounts(LinkedCartItems(scores[i].product))

\* C10: no two returned records have products of the same normalised name.
OneRecordPerItem ==
    Called =>
        \A i \in DOMAIN result : \A j \in DOMAIN result :
            i # j => _clean_name(result[i].product) # _clean_name(result[j].product)

====
